---- MODULE Spec2Model ----
(***************************************************************************)
(* Bet settlement and wallet consistency of index-decimal-wager.           *)
(*                                                                         *)
(* Money is counted in paise (1/100 rupee), the resolution of the          *)
(* DECIMAL(10,2) columns.  An index value with two decimal places is       *)
(* counted in hundredths: 1004535 stands for 10045.35.                     *)
(***************************************************************************)
EXTENDS Integers, Sequences, FiniteSets, TLC

VARIABLES
    query,        \* decision under test: bet type, chosen number, index value
    decision,     \* win/loss verdicts of the server and of the client for query
    wallets,      \* public.wallets: balance of each user's wallet, in paise
    transactions, \* public.transactions: the rows, in insertion order
    rpc,          \* the update_wallet_balance calls, each with its position
    now,          \* the clock read by new Date()
    bets,         \* public.bets: the rows, by id
    trig,         \* the bet-settlement-trigger invocations, each with its position
    runs,         \* the bet-scheduler runs, each with its position
    connections,  \* websocket-betting: the keys of the connections map
    readyState,   \* websocket-betting: readyState of each socket
    sendCalls,    \* bet_settlement messages handed to socket.send, per socket
    sendFailed,   \* sockets whose send threw in the latest broadcast
    lastReply,    \* latest answer of the message handler, per socket
    broadcasts,   \* calls of broadcastBetSettlement so far
    pendingBets,  \* BettingInterface: the keys of the pendingBets map
    place,        \* BettingInterface: the form and the placeBet call under way
    pay           \* the verify-payment invocations, each with its position

decideVars == <<query, decision>>
walletVars == <<wallets, transactions, rpc>>
settleVars == <<now, bets, trig, runs>>
wsVars == <<connections, readyState, sendCalls, sendFailed, lastReply, broadcasts>>

clientVars == <<pendingBets, place>>
payVars == <<pay>>

vars == <<query, decision, wallets, transactions, rpc, now, bets, trig, runs,
          connections, readyState, sendCalls, sendFailed, lastReply, broadcasts,
          pendingBets, place, pay>>

-----------------------------------------------------------------------------
(* Index values and the digit arithmetic of the handlers.                  *)

BetTypes == {"andar", "bahar", "pair"}

\* An index value is parseFloat((Math.random()*10000+10000).toFixed(2)):
\* 10000.00 to 20000.00.
\* A binary64 number in [2^13, 2^14) has 39 fraction bits below the binary
\* point, one in [2^14, 2^15) has 38.
FracBits(v) == IF v \div 100 < 16384 THEN 39 ELSE 38

\* (c * 2^n) mod 100: what is left of c/100 after n binary digits.
RECURSIVE ScaledRem(_, _)
ScaledRem(c, n) == IF n = 0 THEN c % 100 ELSE (2 * ScaledRem(c, n - 1)) % 100

\* parseFloat rounds the decimal string to the nearest binary64.  The
\* integer part is exact, so only the fraction c/100 is rounded, to
\* FracBits binary digits.  TRUE when the stored number is below the decimal
\* one.  (A tie would need c * 2^n = 50 mod 100, impossible for n >= 2.)
StoredBelow(v) ==
    LET r == ScaledRem(v % 100, FracBits(v))
    IN  r > 0 /\ 2 * r < 100

\* Math.floor((value % 1) * m) for m = 10 or 100.  `%` and the product are
\* exact in binary64 here (the fraction has at most 39 bits, m < 2^7), so
\* the result is the floor of m times the stored fraction: the stored
\* fraction is c/100 moved by less than 2^-39, which changes the floor only
\* when m*c/100 is an integer and the stored number is below.
FloorFracTimes(v, m) ==
    LET c == v % 100
    IN  IF StoredBelow(v) /\ (c * m) % 100 = 0
        THEN (c * m) \div 100 - 1
        ELSE (c * m) \div 100

\* bet-settlement-trigger: const decimalPart = Math.floor((stockValue % 1) * 10)
decimalPart(stockValue) == FloorFracTimes(stockValue, 10)

\* bet-settlement-trigger: const lastTwoDigits = Math.floor(stockValue) % 100
lastTwoDigits(stockValue) == (stockValue \div 100) % 100

\* The switch as it would be had the server copied the client's comparisons of
\* the two-digit decimal part.
TriggerIsWinAsClient(bet_type, betNumber, stockValue) ==
    LET dp == FloorFracTimes(stockValue, 100)
    IN  CASE bet_type = "andar" -> dp \div 10 = betNumber \div 10
          [] bet_type = "bahar" -> dp % 10 = betNumber % 10
          [] bet_type = "pair"  -> dp = betNumber
          [] OTHER -> FALSE

\* bet-settlement-trigger: the switch over bet.bet_type.
TriggerIsWin(bet_type, betNumber, stockValue) ==
    CASE bet_type = "andar" -> decimalPart(stockValue) = betNumber
      [] bet_type = "bahar" -> decimalPart(stockValue) = betNumber
      [] bet_type = "pair"  -> lastTwoDigits(stockValue) = betNumber
      [] OTHER -> FALSE

\* placeBet of BettingApp and of the early BettingInterface:
\* const decimalPart = Math.floor((currentValue % 1) * 100) and the if chain.
PlaceBetDecimalPart(currentValue) == FloorFracTimes(currentValue, 100)

PlaceBetIsWin(betType, number, currentValue) ==
    LET dp == PlaceBetDecimalPart(currentValue)
    IN  CASE betType = "andar" -> dp \div 10 = number \div 10
          [] betType = "bahar" -> dp % 10 = number % 10
          [] betType = "pair"  -> dp = number
          [] OTHER -> FALSE

\* Paying the stake back on top of the winnings.
WinAmountWithStake(isWin, amount) ==
    IF isWin THEN amount + (amount * 95) \div 100 ELSE 0

\* const winAmount = isWin ? bet.amount * 0.95 : 0, in paise.
WinAmount(isWin, amount) == IF isWin THEN (amount * 95) \div 100 ELSE 0

-----------------------------------------------------------------------------
(* The wallet and the stored procedure update_wallet_balance.              *)

Users == {"u1", "u2"}

\* transactions.type CHECK (type IN (...))
TxTypes == {"credit", "debit", "bet_place", "bet_win"}

\* Calls made by clients and payment handlers, and amounts they pass.
MaxCalls == 2
ClientCalls == 1..MaxCalls

\* Invocations of bet-settlement-trigger; each makes at most one call.
MaxTriggers == 2
TrigIds == 1..MaxTriggers
TrigCall(t) == MaxCalls + t
RpcIds == 1..(MaxCalls + MaxTriggers)
CallAmounts == {1000, 1500}

\* Not a number, on the client; it reaches the database as NULL.
NaN == 0 - 999999
NullAmount == 0 - 999998

\* reference_id of a call that does not name a bet.
NoBet == 0

IdleCall ==
    [pc |-> "idle", p_user_id |-> "nobody", p_amount |-> 0, p_type |-> "credit",
     p_reference_id |-> NoBet, v_new_balance |-> 0, error |-> "none"]

NewCall(u, a, t, ref) ==
    [pc |-> "select", p_user_id |-> u, p_amount |-> a, p_type |-> t,
     p_reference_id |-> ref, v_new_balance |-> 0, error |-> "none"]

\* handle_new_user gives every user a wallet with balance 0.00.
InitWallet ==
    /\ wallets = [u \in Users |-> 0]
    /\ transactions = <<>>
    /\ rpc = [c \in RpcIds |-> IdleCall]

\* IF p_type IN ('credit', 'bet_win') THEN + ELSE -
NewBalance(v_current_balance, p_type, p_amount) ==
    IF p_type \in {"credit", "bet_win"}
    THEN v_current_balance + p_amount
    ELSE v_current_balance - p_amount

\* A client or handler calls rpc("update_wallet_balance", ...).
RpcRequest(c, u, a, t) ==
    /\ rpc[c].pc = "idle"
    /\ \A d \in ClientCalls : d < c => rpc[d].pc # "idle"
    /\ rpc' = [rpc EXCEPT ![c] = NewCall(u, a, t, NoBet)]
    /\ UNCHANGED <<wallets, transactions>>

\* SELECT id, balance INTO ... ; the two IF blocks.  The SELECT takes no row
\* lock (no FOR UPDATE), so under the default READ COMMITTED isolation
\* another call may commit between this statement and the UPDATE.  With a
\* NULL p_amount the new balance is NULL, and NULL < 0 is not true.
UwbSelect(c) ==
    /\ rpc[c].pc = "select"
    /\ LET call == rpc[c]
           found == call.p_user_id \in DOMAIN wallets
           v_new == NewBalance(wallets[call.p_user_id], call.p_type, call.p_amount)
       IN  rpc' = [rpc EXCEPT ![c] =
                IF ~found
                THEN [call EXCEPT !.pc = "failed",
                                  !.error = "Wallet not found for user"]
                ELSE IF call.p_amount = NullAmount
                THEN [call EXCEPT !.pc = "update", !.v_new_balance = NullAmount]
                ELSE IF call.p_type \notin {"credit", "bet_win"} /\ v_new < 0
                THEN [call EXCEPT !.pc = "failed",
                                  !.error = "Insufficient wallet balance"]
                ELSE [call EXCEPT !.pc = "update", !.v_new_balance = v_new]]
    /\ UNCHANGED <<wallets, transactions>>

\* The row the procedure's UPDATE writes.
UpdatedWallets(call) == [wallets EXCEPT ![call.p_user_id] = call.v_new_balance]

\* UPDATE public.wallets SET balance = v_new_balance; INSERT INTO
\* public.transactions; RETURN TRUE.  Both rows become visible together when
\* the call's transaction commits; a type the CHECK constraint of
\* transactions rejects, or a NULL balance (the column is NOT NULL), rolls
\* the UPDATE back.
UwbUpdate(c) ==
    /\ rpc[c].pc = "update"
    /\ LET call == rpc[c]
       IN  IF call.p_type \in TxTypes /\ call.v_new_balance # NullAmount
           THEN /\ wallets' = UpdatedWallets(call)
                /\ transactions' = Append(transactions,
                        [user_id |-> call.p_user_id, type |-> call.p_type,
                         amount |-> call.p_amount,
                         reference_id |-> call.p_reference_id])
                /\ rpc' = [rpc EXCEPT ![c].pc = "done"]
           ELSE /\ rpc' = [rpc EXCEPT ![c].pc = "failed",
                                      ![c].error = "violates constraint"]
                /\ UNCHANGED <<wallets, transactions>>

ClientRpc ==
    /\ \E c \in ClientCalls, u \in Users \cup {"nobody"}, a \in CallAmounts,
          t \in TxTypes : RpcRequest(c, u, a, t)
    /\ UNCHANGED <<decideVars, settleVars, wsVars, clientVars, payVars>>

ProcedureSelect ==
    /\ \E c \in RpcIds : UwbSelect(c)
    /\ UNCHANGED <<decideVars, settleVars, wsVars, clientVars, payVars>>

ProcedureUpdate ==
    /\ \E c \in RpcIds : UwbUpdate(c)
    /\ UNCHANGED <<decideVars, settleVars, wsVars, clientVars, payVars>>

\* The database fails a running call (a lost connection, a statement
\* timeout, a numeric overflow of DECIMAL(10,2)): its transaction is rolled
\* back and the caller gets an error.
ProcedureFail ==
    /\ \E c \in RpcIds :
        /\ rpc[c].pc \in {"select", "update"}
        /\ rpc' = [rpc EXCEPT ![c].pc = "failed", ![c].error = "database error"]
    /\ UNCHANGED <<wallets, transactions, decideVars, settleVars, wsVars, clientVars, payVars>>

\* Any caller of the rpc endpoint, one call at a time: p_amount is any
\* DECIMAL(10,2), negative ones included.
SerialAmounts == {0 - 1000, 1000, 1500}

SerialRpc ==
    /\ \A d \in RpcIds : rpc[d].pc \in {"idle", "done", "failed"}
    /\ \E c \in ClientCalls, u \in Users, a \in SerialAmounts, t \in TxTypes :
          RpcRequest(c, u, a, t)
    /\ UNCHANGED <<decideVars, settleVars, wsVars, clientVars, payVars>>

-----------------------------------------------------------------------------
(* Bets, bet-settlement-trigger and bet-scheduler.                         *)

MaxBets == 2
BetIds == 1..MaxBets

\* The clock, in ticks; settlement times fall on ticks 1..MaxTime.
MaxTime == 2
Times == 0..MaxTime

MaxRuns == 2
RunIds == 1..MaxRuns

\* STOCK_INDICES.find(idx => idx.name === indexName)
IndexNames == {"Sensex"}

\* What the bets of the model are placed on, their stake (10 rupees), and
\* the index values drawn at settlement: 10045.35 wins both, 10012.70 neither.
BetChoice(b) == IF b % 2 = 1 THEN <<"andar", 3>> ELSE <<"pair", 45>>
Stake == 1000
StockDraws == {1004535, 1001270}

Null == 0 - 1

\* A row as placeBet inserts it: status 'pending', the result columns at
\* their defaults.
PendingBet(choice, at) ==
    [user_id |-> "u1", index_name |-> "Sensex", amount |-> Stake,
     bet_type |-> choice[1], bet_number |-> choice[2],
     settlement_time |-> at, status |-> "pending",
     actual_value |-> Null, actual_decimal |-> Null,
     is_win |-> FALSE, win_amount |-> 0]

IdleTrigger ==
    [pc |-> "idle", betId |-> 0, settlementTime |-> 0, stockValue |-> 0,
     decimalPart |-> 0, isWin |-> FALSE, winAmount |-> 0, user_id |-> "nobody",
     response |-> "none"]

IdleRun == [pc |-> "idle", pendingBets |-> {}, awaiting |-> 0, settlementResults |-> {}]

InitSettle ==
    /\ now = 0
    /\ \E at \in [BetIds -> 1..MaxTime] :
          bets = [b \in BetIds |-> PendingBet(BetChoice(b), at[b])]
    /\ trig = [t \in TrigIds |-> IdleTrigger]
    /\ runs = [r \in RunIds |-> IdleRun]

\* Time passes.
Tick ==
    /\ now < MaxTime
    /\ now' = now + 1
    /\ UNCHANGED <<bets, trig, runs, walletVars, decideVars, wsVars, clientVars, payVars>>

\* Lines 38-67 of the trigger: the request body, the index lookup, the time
\* check against the settlementTime OF THE REQUEST, and the random value.
TriggerStart(t, betId, settlementTime, indexName) ==
    /\ trig[t].pc = "idle"
    /\ \A d \in TrigIds : d < t => trig[d].pc # "idle"
    /\ \E stockValue \in StockDraws :
          trig' = [trig EXCEPT ![t] =
            IF indexName \notin IndexNames
            THEN [@ EXCEPT !.pc = "done", !.betId = betId,
                           !.response = "Invalid index name"]
            ELSE IF ~(now >= settlementTime)
            THEN [@ EXCEPT !.pc = "done", !.betId = betId,
                           !.response = "Bet scheduled for settlement"]
            ELSE [@ EXCEPT !.pc = "select", !.betId = betId,
                           !.settlementTime = settlementTime,
                           !.stockValue = stockValue,
                           !.decimalPart = decimalPart(stockValue)]]

\* An HTTP request to the function from anywhere.
TriggerInvoke ==
    /\ \E t \in TrigIds, betId \in BetIds \cup {0}, settlementTime \in Times,
          indexName \in IndexNames \cup {"Nifty"} :
            TriggerStart(t, betId, settlementTime, indexName)
    /\ UNCHANGED <<now, bets, runs, walletVars, decideVars, wsVars, clientVars, payVars>>

\* Lines 70-98: read the row, decide, compute the payout.
TriggerSelectBet ==
    /\ \E t \in TrigIds :
        /\ trig[t].pc = "select"
        /\ trig' = [trig EXCEPT ![t] =
            IF trig[t].betId \notin BetIds
            THEN [IdleTrigger EXCEPT !.pc = "done", !.betId = trig[t].betId,
                                     !.response = "Bet not found"]
            ELSE LET bet == bets[trig[t].betId]
                     isWin == TriggerIsWin(bet.bet_type, bet.bet_number,
                                           trig[t].stockValue)
                 IN  [@ EXCEPT !.pc = "update", !.isWin = isWin,
                               !.winAmount = WinAmount(isWin, bet.amount),
                               !.user_id = bet.user_id]]
    /\ UNCHANGED <<now, bets, runs, walletVars, decideVars, wsVars, clientVars, payVars>>

\* Lines 100-124: write the result into the row whatever its status, then,
\* for a win, call update_wallet_balance.
TriggerUpdateBet ==
    /\ \E t \in TrigIds :
        /\ trig[t].pc = "update"
        /\ bets' = [bets EXCEPT ![trig[t].betId] =
                [@ EXCEPT !.actual_value = trig[t].stockValue,
                          !.actual_decimal = trig[t].decimalPart,
                          !.is_win = trig[t].isWin,
                          !.win_amount = trig[t].winAmount,
                          !.status = "settled"]]
        /\ IF trig[t].isWin
           THEN /\ rpc' = [rpc EXCEPT ![TrigCall(t)] =
                      NewCall(trig[t].user_id, trig[t].winAmount, "bet_win",
                              trig[t].betId)]
                /\ trig' = [trig EXCEPT ![t].pc = "await"]
           ELSE /\ trig' = [trig EXCEPT ![t].pc = "respond"]
                /\ UNCHANGED rpc
    /\ UNCHANGED <<now, runs, wallets, transactions, decideVars, wsVars, clientVars, payVars>>

\* Lines 126-161: a wallet error is only logged; the broadcast request is
\* answered 426 by websocket-betting and its answer is not read; success.
TriggerRespond ==
    /\ \E t \in TrigIds :
        /\ \/ trig[t].pc = "respond"
           \/ trig[t].pc = "await" /\ rpc[TrigCall(t)].pc \in {"done", "failed"}
        /\ trig' = [trig EXCEPT ![t] = [IdleTrigger EXCEPT !.pc = "done",
                    !.betId = trig[t].betId, !.response = "success"]]
    /\ UNCHANGED <<now, bets, runs, walletVars, decideVars, wsVars, clientVars, payVars>>

\* A poll that asks for the settled bets instead of the pending ones.
DueBetsSettled == {b \in BetIds : bets[b].status = "settled" /\ bets[b].settlement_time <= now}

\* .eq('status', 'pending').lte('settlement_time', now.toISOString())
DueBets == {b \in BetIds : bets[b].status = "pending" /\ bets[b].settlement_time <= now}

\* Lines 22-34 of the scheduler: the poll.
SchedulerPoll ==
    /\ \E r \in RunIds :
        /\ runs[r].pc = "idle"
        /\ \A q \in RunIds : q < r => runs[q].pc # "idle"
        /\ runs' = [runs EXCEPT ![r].pc = "loop", ![r].pendingBets = DueBets]
    /\ UNCHANGED <<now, bets, trig, walletVars, decideVars, wsVars, clientVars, payVars>>

\* Lines 37-51: the next bet of the poll is sent to the trigger, with the
\* settlement_time and index_name of its row.
SchedulerForward ==
    /\ \E r \in RunIds, t \in TrigIds :
        /\ runs[r].pc = "loop"
        /\ \E b \in runs[r].pendingBets \ runs[r].settlementResults :
            /\ TriggerStart(t, b, bets[b].settlement_time, bets[b].index_name)
            /\ runs' = [runs EXCEPT ![r].pc = "await", ![r].awaiting = t]
    /\ UNCHANGED <<now, bets, walletVars, decideVars, wsVars, clientVars, payVars>>

\* Lines 53-58: the trigger has answered; the result is pushed.
SchedulerCollect ==
    /\ \E r \in RunIds :
        /\ runs[r].pc = "await"
        /\ trig[runs[r].awaiting].pc = "done"
        /\ runs' = [runs EXCEPT ![r].pc = "loop", ![r].awaiting = 0,
                ![r].settlementResults = @ \cup {trig[runs[r].awaiting].betId}]
    /\ UNCHANGED <<now, bets, trig, walletVars, decideVars, wsVars, clientVars, payVars>>

\* Lines 69-79: every bet of the poll was sent; the run answers.
SchedulerReturn ==
    /\ \E r \in RunIds :
        /\ runs[r].pc = "loop"
        /\ runs[r].pendingBets \subseteq runs[r].settlementResults
        /\ runs' = [runs EXCEPT ![r].pc = "done"]
    /\ UNCHANGED <<now, bets, trig, walletVars, decideVars, wsVars, clientVars, payVars>>

\* The cron job calls the scheduler again: the same poll, in a run that had
\* answered.
SchedulerPollAgain ==
    /\ \E r \in RunIds :
        /\ runs[r].pc = "done"
        /\ runs' = [runs EXCEPT ![r] =
                [IdleRun EXCEPT !.pc = "loop", !.pendingBets = DueBets]]
    /\ UNCHANGED <<now, bets, trig, walletVars, decideVars, wsVars, clientVars, payVars>>

\* The answer of an invocation has been delivered and read; the invocation
\* and the wallet call it made are over.
TriggerEnd ==
    /\ \E t \in TrigIds :
        /\ trig[t].pc = "done"
        /\ \A r \in RunIds : runs[r].awaiting # t
        /\ trig' = [trig EXCEPT ![t] = IdleTrigger]
        /\ rpc' = [rpc EXCEPT ![TrigCall(t)] = IdleCall]
    /\ UNCHANGED <<now, bets, runs, wallets, transactions, decideVars, wsVars, clientVars, payVars>>

\* handleBetSettlement of BettingInterface: the result of a settlement message
\* is written into the row (the status is not), and a win is credited through
\* update_wallet_balance by the client.
ClientResults ==
    {[isWin |-> w, actualValue |-> v, decimalPart |-> decimalPart(v)] :
        w \in BOOLEAN, v \in StockDraws}

HandleBetSettlement ==
    /\ \E b \in pendingBets, result \in ClientResults :
        LET winAmount == WinAmount(result.isWin, bets[b].amount)
        IN  /\ pendingBets' = pendingBets \ {b}
            /\ bets' = [bets EXCEPT ![b] =
                    [@ EXCEPT !.actual_value = result.actualValue,
                              !.actual_decimal = result.decimalPart,
                              !.is_win = result.isWin,
                              !.win_amount = winAmount]]
            /\ IF result.isWin
               THEN \E c \in ClientCalls :
                      /\ rpc[c].pc = "idle"
                      /\ \A d \in ClientCalls : d < c => rpc[d].pc # "idle"
                      /\ rpc' = [rpc EXCEPT ![c] =
                              NewCall(bets[b].user_id, winAmount, "bet_win", b)]
               ELSE UNCHANGED rpc
    /\ UNCHANGED <<now, trig, runs, wallets, transactions, decideVars, wsVars, place, payVars>>

\* CREATE POLICY "Users can update their own wallet" ON public.wallets
\* FOR UPDATE USING (auth.uid() = user_id): a signed-in user may UPDATE any
\* column of the own row through the table API.
PolicyBalances == {0, 100000}

WalletsPolicyUpdate ==
    /\ \E u \in Users, v \in PolicyBalances :
          /\ wallets[u] # v
          /\ wallets' = [wallets EXCEPT ![u] = v]
    /\ UNCHANGED <<transactions, rpc, decideVars, settleVars, wsVars, clientVars, payVars>>

-----------------------------------------------------------------------------
(* websocket-betting: the connection registry and the broadcast.           *)

MaxConns == 2
ConnIds == 1..MaxConns
MaxBroadcasts == 1

\* No connection yet: const connections = new Map<string, WebSocket>()
InitWs ==
    /\ connections = {}
    /\ readyState = [c \in ConnIds |-> "CONNECTING"]
    /\ sendCalls = [c \in ConnIds |-> 0]
    /\ sendFailed = {}
    /\ lastReply = [c \in ConnIds |-> "none"]
    /\ broadcasts = 0

\* socket.addEventListener("open", ...): connections.set(connectionId, socket)
WsOpen ==
    /\ \E c \in ConnIds :
        /\ readyState[c] = "CONNECTING"
        /\ readyState' = [readyState EXCEPT ![c] = "OPEN"]
        /\ connections' = connections \cup {c}
    /\ UNCHANGED <<sendCalls, sendFailed, lastReply, broadcasts,
                   decideVars, walletVars, settleVars, clientVars, payVars>>

\* The socket starts closing, then is closed, before any handler has run.
WsClosing ==
    /\ \E c \in ConnIds :
        \/ readyState[c] = "OPEN" /\ readyState' = [readyState EXCEPT ![c] = "CLOSING"]
        \/ readyState[c] = "CLOSING" /\ readyState' = [readyState EXCEPT ![c] = "CLOSED"]
    /\ UNCHANGED <<connections, sendCalls, sendFailed, lastReply, broadcasts,
                   decideVars, walletVars, settleVars, clientVars, payVars>>

\* socket.addEventListener("message", ...): the answer to a message.
WsMessage ==
    /\ \E c \in ConnIds, reply \in {"subscription_confirmed", "error"} :
        /\ readyState[c] = "OPEN"
        /\ lastReply[c] # reply
        /\ lastReply' = [lastReply EXCEPT ![c] = reply]
    /\ UNCHANGED <<connections, readyState, sendCalls, sendFailed, broadcasts,
                   decideVars, walletVars, settleVars, clientVars, payVars>>

\* socket.addEventListener("close", ...): connections.delete(connectionId)
WsClose ==
    /\ \E c \in connections :
        /\ readyState[c] = "CLOSED"
        /\ connections' = connections \ {c}
    /\ UNCHANGED <<readyState, sendCalls, sendFailed, lastReply, broadcasts,
                   decideVars, walletVars, settleVars, clientVars, payVars>>

\* socket.addEventListener("error", ...): connections.delete(connectionId)
WsError ==
    /\ \E c \in connections : connections' = connections \ {c}
    /\ UNCHANGED <<readyState, sendCalls, sendFailed, lastReply, broadcasts,
                   decideVars, walletVars, settleVars, clientVars, payVars>>

\* if (socket.readyState === WebSocket.OPEN) socket.send(message)
SendsTo(c) == readyState[c] = "OPEN"

\* A broadcast that cleans nothing up.
KeepsAll(c, thrown) == TRUE

\* The entry stays unless the else branch or the catch block deletes it.
Keeps(c, thrown) == SendsTo(c) /\ c \notin thrown

\* broadcastBetSettlement: one pass over the map, without an await; thrown
\* are the sockets whose send throws.
Broadcast ==
    /\ broadcasts < MaxBroadcasts
    /\ \E thrown \in SUBSET {c \in connections : SendsTo(c)} :
        /\ sendCalls' = [c \in ConnIds |->
                IF c \in connections /\ SendsTo(c) THEN sendCalls[c] + 1
                ELSE sendCalls[c]]
        /\ sendFailed' = thrown
        /\ connections' = {c \in connections : Keeps(c, thrown)}
    /\ broadcasts' = broadcasts + 1
    /\ UNCHANGED <<readyState, lastReply, decideVars, walletVars, settleVars, clientVars, payVars>>

-----------------------------------------------------------------------------
(* The decisions as a state machine over sampled inputs.                   *)

\* Integer parts sampled on both sides of 2^14, where the rounding changes.
IntSamples == {10000, 10045, 16383, 16384, 19999}
StockSamples == {i * 100 + c : i \in IntSamples, c \in 0..99}

\* The numbers placeBet accepts: 0-9 for andar and bahar, 0-99 for pair.
NumberRange(t) == IF t = "pair" THEN 0..99 ELSE 0..9

Queries ==
    UNION {[bet_type : {t}, bet_number : NumberRange(t), value : StockSamples]
           : t \in BetTypes}

Verdict(b) == IF b THEN "win" ELSE "loss"

\* The server decides the query.
TriggerDecide ==
    /\ decision.server = "none"
    /\ decision' = [decision EXCEPT !.server =
            Verdict(TriggerIsWin(query.bet_type, query.bet_number, query.value))]
    /\ UNCHANGED <<query, walletVars, settleVars, wsVars, clientVars, payVars>>

\* The client decides the query.
PlaceBetDecide ==
    /\ decision.client = "none"
    /\ decision' = [decision EXCEPT !.client =
            Verdict(PlaceBetIsWin(query.bet_type, query.bet_number, query.value))]
    /\ UNCHANGED <<query, walletVars, settleVars, wsVars, clientVars, payVars>>

-----------------------------------------------------------------------------
(* placeBet of BettingInterface.  Times of day are minutes after midnight  *)
(* in the browser's time zone, which is India's; in the specification of    *)
(* placeBet the clock `now` counts them too.                                *)

\* const istOffset = 5.5, in minutes.
IstOffset == 330

\* STOCK_INDICES of the client: UTC offset of the time zone (New York on
\* daylight time), marketOpen and marketClose, in minutes.
PlaceIndexNames == {"Taiwan", "Sensex", "Dow Jones"}

IndexConfig(name) ==
    CASE name = "Taiwan"    -> [offset |-> 480, marketOpen |-> 540, marketClose |-> 810]
      [] name = "Sensex"    -> [offset |-> 330, marketOpen |-> 555, marketClose |-> 930]
      [] name = "Dow Jones" -> [offset |-> 0 - 240, marketOpen |-> 570, marketClose |-> 960]

MinutesPerDay == 24 * 60

\* The wall clock of the index's zone at the browser's time of day t.
MarketClock(indexConfig, t) ==
    (t + indexConfig.offset - IstOffset) % MinutesPerDay

\* isMarketOpen: currentTime >= marketOpen && currentTime <= marketClose
isMarketOpen(indexConfig, t) ==
    /\ MarketClock(indexConfig, t) >= indexConfig.marketOpen
    /\ MarketClock(indexConfig, t) <= indexConfig.marketClose

\* An empty customTime; otherwise <input type="time"> gives HH:MM, which
\* the regular expression accepts, kept here as its minute of the day.
NoTime == 0 - 1

\* validateCustomTime(time, indexName) at the browser's time of day t.
validateCustomTime(time, indexName, t) ==
    IF time = NoTime THEN TRUE
    ELSE LET indexConfig == IndexConfig(indexName)
             isInPast == time <= t
             \* marketCloseToday.setHours(...) is local; toLocaleString moves
             \* that instant to the wall clock of the index's zone.
             marketCloseISTDecimal == MarketClock(indexConfig, indexConfig.marketClose)
             adjustedCloseTime ==
                 indexConfig.marketClose + (IstOffset - indexConfig.offset)
             closesNextDayInIST == adjustedCloseTime >= MinutesPerDay
             tomorrowCloseTime == adjustedCloseTime - MinutesPerDay
             isAfterMarketClose ==
                 IF closesNextDayInIST
                 THEN IF time < 6 * 60 THEN time > tomorrowCloseTime ELSE FALSE
                 ELSE time > marketCloseISTDecimal
         IN  ~isInPast /\ ~isAfterMarketClose

\* settlementDateTime: new Date() with setHours(hours, minutes, 0, 0), which
\* sets the browser's local time of the present day.
SettlementDateTime(settlementTime, customTime, indexName, t) ==
    IF settlementTime = "market_close" THEN IndexConfig(indexName).marketClose
    ELSE IF settlementTime = "custom" /\ customTime # NoTime THEN customTime
    ELSE t

DigitChars == <<"0", "1", "2", "3", "4", "5", "6", "7", "8", "9">>
IsDigit(ch) == \E i \in 1..10 : DigitChars[i] = ch
DigitValue(ch) == (CHOOSE i \in 1..10 : DigitChars[i] = ch) - 1

\* parseInt: an optional sign, then the leading decimal digits; NaN when
\* there is none.  A string is the sequence of its characters.
RECURSIVE ParseDigits(_, _, _)
ParseDigits(str, acc, seen) ==
    IF str = <<>> \/ ~IsDigit(Head(str))
    THEN IF seen THEN acc ELSE NaN
    ELSE ParseDigits(Tail(str), 10 * acc + DigitValue(Head(str)), TRUE)

parseInt(str) ==
    IF str # <<>> /\ Head(str) = "-"
    THEN LET v == ParseDigits(Tail(str), 0, FALSE)
         IN  IF v = NaN THEN NaN ELSE 0 - v
    ELSE ParseDigits(str, 0, FALSE)

\* a < b of JavaScript numbers: false when either is NaN.
JsLess(a, b) == a # NaN /\ b # NaN /\ a < b

\* NaN is sent as null by JSON.stringify; rupees are sent as they are.
Paise(amount) == IF amount = NaN THEN NullAmount ELSE 100 * amount

\* Values of the form.  The amount and number fields are <input
\* type="number">, whose value is "" or a valid floating-point number.
AmountStrings ==
    { <<>>, <<"9">>, <<"1", "0">>, <<"1", "0", "0">>, <<"5", "0", "0">>,
      <<"5", "0", "1">>, <<".", "5">> }
NumberStrings == { <<>>, <<"7">>, <<"4", "5">> }
FormBetTypes == {"", "andar", "pair"}
SettlementChoices == {"market_close", "custom"}
CustomTimes == {NoTime, 12 * 60, 15 * 60, 21 * 60}

Forms ==
    [selectedIndex : PlaceIndexNames, betAmount : AmountStrings,
     betType : FormBetTypes, betNumber : NumberStrings,
     settlementTime : SettlementChoices, customTime : CustomTimes]

\* No call of placeBet yet; walletBalance is the balance the page loaded.
IdlePlace(walletBalance) ==
    [pc |-> "idle",
     form |-> [selectedIndex |-> "Taiwan", betAmount |-> <<>>, betType |-> "",
               betNumber |-> <<>>, settlementTime |-> "market_close",
               customTime |-> NoTime],
     walletBalance |-> walletBalance, amount |-> 0, number |-> 0,
     call |-> 0, betId |-> 0, toast |-> "none"]

\* Lines 444-525: the checks of placeBet; "" when every check passes.
PlaceBetError(form, walletBalance, t) ==
    LET amount == parseInt(form.betAmount)
        number == parseInt(form.betNumber)
    IN  IF \/ form.selectedIndex = "" \/ form.betAmount = <<>>
           \/ form.betType = "" \/ form.betNumber = <<>>
           \/ form.settlementTime = ""
        THEN "Please fill all fields"
        ELSE IF form.settlementTime = "custom" /\ form.customTime = NoTime
        THEN "Please specify custom settlement time"
        ELSE IF /\ form.settlementTime = "custom"
                /\ ~validateCustomTime(form.customTime, form.selectedIndex, t)
        THEN "Settlement time cannot be in the past or after market close"
        ELSE IF JsLess(amount, 10) \/ JsLess(500, amount)
        THEN "Bet amount must be between 10-500"
        ELSE IF JsLess(walletBalance, Paise(amount)) /\ amount # NaN
        THEN "Insufficient Balance"
        ELSE IF /\ form.betType \in {"andar", "bahar"}
                /\ (number = NaN \/ number < 0 \/ number > 9)
        THEN "For Andar/Bahar bets, please enter a single digit (0-9)"
        ELSE IF form.betType = "pair" /\ (number = NaN \/ number < 0 \/ number > 99)
        THEN "For Pair bets, please enter a valid number (0-99)"
        ELSE ""

\* A row that does not exist yet.
AbsentBet == [PendingBet(<<"andar", 0>>, 0) EXCEPT !.status = "absent"]

\* The user presses Place Bet, which is enabled while the market of the
\* selected index is open: the checks, and the call that deducts the stake.
PlaceBetClick ==
    /\ place.pc = "idle"
    /\ \E form \in Forms, c \in ClientCalls :
        LET error == PlaceBetError(form, place.walletBalance, now)
            amount == parseInt(form.betAmount)
        IN  /\ isMarketOpen(IndexConfig(form.selectedIndex), now)
            /\ rpc[c].pc = "idle"
            /\ \A d \in ClientCalls : d < c => rpc[d].pc # "idle"
            /\ IF error # ""
               THEN /\ place' = [place EXCEPT !.pc = "done", !.form = form,
                                              !.toast = error]
                    /\ UNCHANGED rpc
               ELSE /\ place' = [place EXCEPT !.pc = "deduct", !.form = form,
                                              !.amount = amount,
                                              !.number = parseInt(form.betNumber),
                                              !.call = c]
                    /\ rpc' = [rpc EXCEPT ![c] =
                            NewCall("u1", Paise(amount), "bet_place", NoBet)]
    /\ UNCHANGED <<wallets, transactions, pendingBets, decideVars, settleVars, wsVars, payVars>>

\* Lines 539-604 and the catch block: the answer of the wallet call is not
\* looked at; the row is inserted or the insert fails (it fails when amount
\* is null, the column being NOT NULL).
PlaceBetInsert ==
    /\ place.pc = "deduct"
    /\ rpc[place.call].pc \in {"done", "failed"}
    /\ \E betError \in BOOLEAN, b \in BetIds :
        /\ place.amount = NaN => betError
        /\ bets[b].status = "absent"
        /\ \A d \in BetIds : d < b => bets[d].status # "absent"
        /\ IF betError
           THEN /\ place' = [place EXCEPT !.pc = "done", !.toast = "Error"]
                /\ UNCHANGED <<bets, pendingBets>>
           ELSE /\ bets' = [bets EXCEPT ![b] =
                        [user_id |-> "u1", index_name |-> place.form.selectedIndex,
                         amount |-> Paise(place.amount),
                         bet_type |-> place.form.betType,
                         bet_number |-> place.number,
                         settlement_time |->
                            SettlementDateTime(place.form.settlementTime,
                                place.form.customTime, place.form.selectedIndex, now),
                         status |-> "pending",
                         actual_value |-> Null, actual_decimal |-> Null,
                         is_win |-> FALSE, win_amount |-> 0]]
                /\ pendingBets' = pendingBets \cup {b}
                /\ place' = [place EXCEPT !.pc = "done", !.betId = b,
                        !.walletBalance = @ - Paise(place.amount),
                        !.toast = "Bet Placed Successfully!"]
    /\ UNCHANGED <<now, trig, runs, walletVars, decideVars, wsVars, payVars>>

-----------------------------------------------------------------------------
(* verify-payment and the payment gateway.                                 *)

MaxPays == 2
PayIds == 1..MaxPays

\* Orders and payments of the gateway; payment p was made for order p.  A
\* missing field of a request is 0.
PaymentIds == {1, 2}
Missing == 0

\* createHmac("sha256", key).update(body).digest("hex"): different keys or
\* bodies give different digests.
Hmac(key, body) == <<"sha256", key, body>>
KeySecret == "RAZORPAY_KEY_SECRET"

\* What GET /v1/payments/{id} answers: the first payment is captured, the
\* second is authorized only.  Amounts are in paise.
Payment(id) ==
    IF id = 1 THEN [status |-> "captured", amount |-> 500 * 100]
    ELSE [status |-> "authorized", amount |-> 200 * 100]

\* Signatures a request can carry: the ones the gateway made for its own
\* payments, one made with another key, or none.
Signatures ==
    {Hmac(KeySecret, <<p, p>>) : p \in PaymentIds}
        \cup {Hmac("guess", <<1, 1>>), <<>>}

Requests ==
    [user : {"u1", "nobody"}, razorpay_order_id : PaymentIds \cup {Missing},
     razorpay_payment_id : PaymentIds \cup {Missing},
     razorpay_signature : Signatures]

IdlePay ==
    [pc |-> "idle",
     request |-> [user |-> "nobody", razorpay_order_id |-> Missing,
                  razorpay_payment_id |-> Missing, razorpay_signature |-> <<>>],
     call |-> 0, response |-> "none"]

\* A handler that takes every signature.
SignatureNeverChecked(expectedSignature, razorpay_signature) == FALSE

\* expectedSignature !== razorpay_signature
SignatureMismatch(expectedSignature, razorpay_signature) ==
    expectedSignature # razorpay_signature

\* Lines 21-50: the user of the token, the three fields, the signature.
VerifyPaymentStart ==
    /\ \E v \in PayIds, request \in Requests :
        /\ pay[v].pc = "idle"
        /\ \A w \in PayIds : w < v => pay[w].pc # "idle"
        /\ LET expectedSignature ==
                   Hmac(KeySecret, <<request.razorpay_order_id,
                                     request.razorpay_payment_id>>)
               error ==
                   IF request.user = "nobody" THEN "User not authenticated"
                   ELSE IF \/ request.razorpay_order_id = Missing
                           \/ request.razorpay_payment_id = Missing
                           \/ request.razorpay_signature = <<>>
                   THEN "Missing payment verification data"
                   ELSE IF SignatureMismatch(expectedSignature,
                                             request.razorpay_signature)
                   THEN "Invalid payment signature"
                   ELSE ""
           IN  pay' = [pay EXCEPT ![v] =
                    IF error # ""
                    THEN [@ EXCEPT !.pc = "done", !.request = request,
                                   !.response = error]
                    ELSE [@ EXCEPT !.pc = "fetch", !.request = request]]
    /\ UNCHANGED <<walletVars, decideVars, settleVars, wsVars, clientVars>>

\* Lines 52-93: the gateway answers, or the request to it fails; a captured
\* payment is credited with payment.amount / 100 rupees.
VerifyPaymentFetch ==
    /\ \E v \in PayIds, ok \in BOOLEAN, c \in ClientCalls :
        /\ pay[v].pc = "fetch"
        /\ rpc[c].pc = "idle"
        /\ \A d \in ClientCalls : d < c => rpc[d].pc # "idle"
        /\ LET payment == Payment(pay[v].request.razorpay_payment_id)
           IN  IF ~ok
               THEN /\ pay' = [pay EXCEPT ![v].pc = "done",
                          ![v].response = "Failed to fetch payment details"]
                    /\ UNCHANGED rpc
               ELSE IF payment.status # "captured"
               THEN /\ pay' = [pay EXCEPT ![v].pc = "done",
                          ![v].response = "Payment not captured"]
                    /\ UNCHANGED rpc
               ELSE /\ pay' = [pay EXCEPT ![v].pc = "credit", ![v].call = c]
                    /\ rpc' = [rpc EXCEPT ![c] =
                            NewCall(pay[v].request.user, payment.amount, "credit",
                                    pay[v].request.razorpay_payment_id)]
    /\ UNCHANGED <<wallets, transactions, decideVars, settleVars, wsVars, clientVars>>

\* Lines 95-120: a wallet error becomes an error answer, otherwise success.
VerifyPaymentRespond ==
    /\ \E v \in PayIds :
        /\ pay[v].pc = "credit"
        /\ rpc[pay[v].call].pc \in {"done", "failed"}
        /\ pay' = [pay EXCEPT ![v].pc = "done", ![v].response =
                IF rpc[pay[v].call].pc = "failed"
                THEN "Failed to update wallet balance" ELSE "success"]
    /\ UNCHANGED <<walletVars, decideVars, settleVars, wsVars, clientVars>>

-----------------------------------------------------------------------------
(* The specifications: each runs one part of the system from the state     *)
(* after deployment, the other parts at rest.                              *)

\* The bets of the table were placed in this session of the client.
InitClient ==
    /\ pendingBets = BetIds
    /\ place = IdlePlace(0)
    /\ pay = [v \in PayIds |-> IdlePay]

\* No decision under test.
NoQuery ==
    /\ query = [bet_type |-> "andar", bet_number |-> 0, value |-> 1000000]
    /\ decision = [server |-> "none", client |-> "none"]

\* The bets table when settlement is not what is run: one table is enough.
BetsAtRest == InitSettle /\ \A b \in BetIds : bets[b].settlement_time = MaxTime

InitDecide ==
    /\ query \in Queries
    /\ decision = [server |-> "none", client |-> "none"]
    /\ InitWallet /\ BetsAtRest /\ InitWs /\ InitClient

NextDecide == TriggerDecide \/ PlaceBetDecide

SpecDecide == InitDecide /\ [][NextDecide]_vars

InitWalletOnly == NoQuery /\ InitWallet /\ BetsAtRest /\ InitWs /\ InitClient

NextWallet == ClientRpc \/ ProcedureSelect \/ ProcedureUpdate

SpecWallet == InitWalletOnly /\ [][NextWallet]_vars

NextAccess == ClientRpc \/ ProcedureSelect \/ ProcedureUpdate \/ WalletsPolicyUpdate

SpecAccess == InitWalletOnly /\ [][NextAccess]_vars

InitSettleOnly == NoQuery /\ InitWallet /\ InitSettle /\ InitWs /\ InitClient

NextSettle ==
    \/ Tick
    \/ TriggerInvoke
    \/ TriggerSelectBet
    \/ TriggerUpdateBet
    \/ TriggerRespond
    \/ ProcedureSelect
    \/ ProcedureUpdate
    \/ SchedulerPoll
    \/ SchedulerForward
    \/ SchedulerCollect
    \/ SchedulerReturn

SpecSettle == InitSettleOnly /\ [][NextSettle]_vars

\* The scheduler under its cron job: the job fires again and again, and every
\* request that was started is served to its end.
NextCron ==
    \/ Tick
    \/ SchedulerPoll
    \/ SchedulerPollAgain
    \/ SchedulerForward
    \/ SchedulerCollect
    \/ SchedulerReturn
    \/ TriggerSelectBet
    \/ TriggerUpdateBet
    \/ TriggerRespond
    \/ TriggerEnd
    \/ ProcedureSelect
    \/ ProcedureUpdate

CronFairness ==
    /\ WF_vars(Tick)
    /\ WF_vars(SchedulerPoll)
    /\ WF_vars(SchedulerPollAgain)
    /\ WF_vars(SchedulerForward)
    /\ WF_vars(SchedulerCollect)
    /\ WF_vars(SchedulerReturn)
    /\ WF_vars(TriggerSelectBet)
    /\ WF_vars(TriggerUpdateBet)
    /\ WF_vars(TriggerRespond)
    /\ WF_vars(TriggerEnd)
    /\ WF_vars(ProcedureSelect)
    /\ WF_vars(ProcedureUpdate)

\* The bets are due one after the other: bet b at tick b.
InitCron ==
    /\ InitSettleOnly
    /\ \A b \in BetIds : bets[b].settlement_time = ((b - 1) % MaxTime) + 1

SpecCron == InitCron /\ [][NextCron]_vars /\ CronFairness

\* The trigger called directly, over a database whose calls may fail.
NextFault ==
    \/ Tick
    \/ TriggerInvoke
    \/ TriggerSelectBet
    \/ TriggerUpdateBet
    \/ TriggerRespond
    \/ ProcedureSelect
    \/ ProcedureUpdate
    \/ ProcedureFail

SpecFault == InitSettleOnly /\ [][NextFault]_vars

\* Stakes placeBet accepts, in paise: whole rupees from 10 to 500.
StakeSamples == {1000, 1100, 50000}

\* Every bet is due; the first has any of the sampled stakes.
InitPayout ==
    /\ NoQuery /\ InitWallet /\ InitWs /\ InitClient
    /\ now = MaxTime
    /\ \E a \in StakeSamples :
          bets = [b \in BetIds |->
                    IF b = 1
                    THEN [PendingBet(BetChoice(b), MaxTime) EXCEPT !.amount = a]
                    ELSE PendingBet(BetChoice(b), MaxTime)]
    /\ trig = [t \in TrigIds |-> IdleTrigger]
    /\ runs = [r \in RunIds |-> IdleRun]

\* Settlement by the trigger and by the client's handler, up to the wallet
\* calls they make; the calls themselves run under SpecWallet and SpecSettle.
NextPayout ==
    \/ TriggerInvoke
    \/ TriggerSelectBet
    \/ TriggerUpdateBet
    \/ TriggerRespond
    \/ HandleBetSettlement

SpecPayout == InitPayout /\ [][NextPayout]_vars

\* The procedure under calls that do not overlap.
NextSerial == SerialRpc \/ ProcedureSelect \/ ProcedureUpdate

SpecSerial == InitWalletOnly /\ [][NextSerial]_vars

\* A session of the client: the wallet was topped up, the page has loaded
\* its balance, and no bet exists yet.
TopUps == {100 * 100, 500 * 100}
PlaceClocks == {10 * 60 + 30, 20 * 60}

InitPlace ==
    /\ NoQuery /\ InitWs
    /\ \E topUp \in TopUps :
        /\ wallets = [u \in Users |-> IF u = "u1" THEN topUp ELSE 0]
        /\ transactions = << [user_id |-> "u1", type |-> "credit",
                              amount |-> topUp, reference_id |-> NoBet] >>
        /\ place = IdlePlace(topUp)
    /\ rpc = [c \in RpcIds |-> IdleCall]
    /\ now \in PlaceClocks
    /\ bets = [b \in BetIds |-> AbsentBet]
    /\ trig = [t \in TrigIds |-> IdleTrigger]
    /\ runs = [r \in RunIds |-> IdleRun]
    /\ pendingBets = {}
    /\ pay = [v \in PayIds |-> IdlePay]

NextPlace ==
    \/ PlaceBetClick
    \/ PlaceBetInsert
    \/ ProcedureSelect
    \/ ProcedureUpdate
    \/ ProcedureFail

SpecPlace == InitPlace /\ [][NextPlace]_vars

\* The payment handler over the wallet.
NextPay ==
    \/ VerifyPaymentStart
    \/ VerifyPaymentFetch
    \/ VerifyPaymentRespond
    \/ ProcedureSelect
    \/ ProcedureUpdate
    \/ ProcedureFail

SpecPay == InitWalletOnly /\ [][NextPay]_vars

InitWsOnly == NoQuery /\ InitWallet /\ BetsAtRest /\ InitWs /\ InitClient

NextWs == WsOpen \/ WsClosing \/ WsMessage \/ WsClose \/ WsError \/ Broadcast

SpecWs == InitWsOnly /\ [][NextWs]_vars

-----------------------------------------------------------------------------
(* Claims about the win/loss decision, checked under SpecDecide.           *)

FirstDecimalDigit(v) == (v % 100) \div 10
SecondDecimalDigit(v) == v % 10
TwoDecimalDigits(v) == v % 100

\* C5: for every two-decimal index value and every chosen number 0-9, the
\* server declares an andar bet won if and only if the first decimal digit
\* of the value equals the chosen number.
C5_AndarFirstDecimalDigit ==
    (query.bet_type = "andar" /\ decision.server # "none") =>
        (decision.server = "win" <=>
            FirstDecimalDigit(query.value) = query.bet_number)

\* C6: for every two-decimal index value and every chosen number 0-9, the
\* server declares a bahar bet won if and only if the second decimal digit
\* of the value equals the chosen number.
C6_BaharSecondDecimalDigit ==
    (query.bet_type = "bahar" /\ decision.server # "none") =>
        (decision.server = "win" <=>
            SecondDecimalDigit(query.value) = query.bet_number)

\* C7: for every two-decimal index value and every chosen number 0-99, the
\* server declares a pair bet won if and only if the two decimal digits of
\* the value, read as a two-digit number, equal the chosen number.
C7_PairBothDecimalDigits ==
    (query.bet_type = "pair" /\ decision.server # "none") =>
        (decision.server = "win" <=>
            TwoDecimalDigits(query.value) = query.bet_number)

\* Combinations, one per bet type, on which client and server part ways.
DisagreeExamples ==
    { [bet_type |-> "andar", bet_number |-> 3,  value |-> 1004535],
      [bet_type |-> "bahar", bet_number |-> 5,  value |-> 1004553],
      [bet_type |-> "pair",  bet_number |-> 45, value |-> 1004512] }

BothDecided == decision.server # "none" /\ decision.client # "none"

\* C8: there is a combination of bet type, chosen number and two-decimal
\* index value on which the client-side decision of placeBet and the
\* server-side decision of bet-settlement-trigger differ: on each of the
\* DisagreeExamples the two verdicts, once both are made, are different.
C8_DecisionsDisagree ==
    (BothDecided /\ query \in DisagreeExamples) =>
        decision.server # decision.client

C8_Witness ==
    /\ BothDecided
    /\ query \in DisagreeExamples
    /\ decision.server = "win"
    /\ decision.client = "loss"

-----------------------------------------------------------------------------
(* Claims about update_wallet_balance, checked under SpecWallet.           *)

\* What the rows of user u add up to: credits and winnings minus debits
\* and stakes.
RECURSIVE LedgerSum(_, _)
LedgerSum(rows, u) ==
    IF rows = <<>> THEN 0
    ELSE LET row == Head(rows)
             signed == IF row.user_id # u THEN 0
                       ELSE IF row.type \in {"credit", "bet_win"} THEN row.amount
                       ELSE 0 - row.amount
         IN  signed + LedgerSum(Tail(rows), u)

LedgerBalanced == \A u \in Users : wallets[u] = LedgerSum(transactions, u)

\* A call that succeeds moves its wallet by exactly p_amount and appends one
\* row; a call that fails appends none; no other step touches either.
CallEffect ==
    /\ \A c \in RpcIds :
          (rpc[c].pc # "done" /\ rpc'[c].pc = "done") =>
              /\ wallets'[rpc[c].p_user_id] =
                    NewBalance(wallets[rpc[c].p_user_id], rpc[c].p_type,
                               rpc[c].p_amount)
              /\ Len(transactions') = Len(transactions) + 1
    /\ \A c \in RpcIds :
          (rpc[c].pc # "failed" /\ rpc'[c].pc = "failed") =>
              transactions' = transactions

\* C2: in every reachable state each wallet's balance equals the sum of its
\* credit and bet_win transactions minus the sum of its debit and bet_place
\* transactions, and every successful call changes the balance by exactly
\* p_amount and appends exactly one transaction row (a failed call none).
C2_LedgerInvariant == [](LedgerBalanced) /\ [][CallEffect]_vars

\* The calls made so far, and whether any is still running.
UsedCalls == {c \in RpcIds : rpc[c].pc # "idle"}
CallsFinished == \A c \in RpcIds : rpc[c].pc \in {"idle", "done", "failed"}

\* The wallets and outcomes after running the calls of order one at a time.
RECURSIVE SerialRun(_, _)
SerialRun(order, w) ==
    IF order = <<>> THEN [wallets |-> w, outcome |-> <<>>]
    ELSE LET call == rpc[Head(order)]
             found == call.p_user_id \in DOMAIN w
             v_new == NewBalance(w[call.p_user_id], call.p_type, call.p_amount)
             ok == found /\ (call.p_type \in {"credit", "bet_win"} \/ v_new >= 0)
             rest == SerialRun(Tail(order),
                        IF ok THEN [w EXCEPT ![call.p_user_id] = v_new] ELSE w)
         IN  [wallets |-> rest.wallets,
              outcome |-> <<IF ok THEN "done" ELSE "failed">> \o rest.outcome]

Orders(S) ==
    {o \in [1..Cardinality(S) -> S] : \A i, j \in 1..Cardinality(S) :
                                          o[i] = o[j] => i = j}

\* C3: when calls for the same user overlap, the final balance equals the
\* result of applying the calls in some serial order: no update is lost and a
\* debit that would make the balance negative in that order is rejected.
C3_SerialOrder ==
    CallsFinished =>
        \E o \in Orders(UsedCalls) :
            LET run == SerialRun(o, [u \in Users |-> 0])
            IN  /\ run.wallets = wallets
                /\ \A i \in 1..Len(o) : run.outcome[i] = rpc[o[i]].pc

\* A debit or bet_place for more than the balance fails with 'Insufficient
\* wallet balance' and changes neither the balance nor the transactions.
RejectsOverdraft ==
    \A c \in RpcIds :
        (/\ rpc[c].pc = "select"
         /\ rpc'[c].pc # "select"
         /\ rpc[c].p_type \in {"debit", "bet_place"}
         /\ rpc[c].p_amount > wallets[rpc[c].p_user_id]) =>
            /\ rpc'[c].pc = "failed"
            /\ rpc'[c].error = "Insufficient wallet balance"
            /\ wallets' = wallets
            /\ transactions' = transactions

NoNegativeBalance == \A u \in Users : wallets[u] >= 0

\* C15: update_wallet_balance rejects a debit or bet_place that exceeds the
\* balance, leaving balance and transactions as they were, and when calls do
\* not overlap no balance is negative in any reachable state.
C15_NoOverdraft == [][RejectsOverdraft]_vars /\ [](NoNegativeBalance)

C15_RejectsOverdraft == [][RejectsOverdraft]_vars

-----------------------------------------------------------------------------
(* Claims about settlement, checked under SpecSettle, and about the paths  *)
(* to the balance, checked under SpecAccess.                               *)

RECURSIVE WinRows(_, _)
WinRows(rows, b) ==
    IF rows = <<>> THEN 0
    ELSE (IF Head(rows).type = "bet_win" /\ Head(rows).reference_id = b
          THEN 1 ELSE 0) + WinRows(Tail(rows), b)

\* No trigger invocation, scheduler run or wallet call is under way.
Quiescent ==
    /\ \A t \in TrigIds : trig[t].pc \in {"idle", "done"}
    /\ \A r \in RunIds : runs[r].pc \in {"idle", "done"}
    /\ CallsFinished

\* C1: after any finite sequence of scheduler runs and trigger invocations,
\* overlapping or repeated, the ledger holds exactly one bet_win transaction
\* referencing a bet whose row is recorded as a win, and none for a bet
\* recorded as a loss or still pending.
C1_SettledExactlyOnce ==
    Quiescent =>
        \A b \in BetIds :
            WinRows(transactions, b) =
                IF bets[b].status = "settled" /\ bets[b].is_win THEN 1 ELSE 0

\* C4: every change of a wallet's balance is the UPDATE of a running
\* update_wallet_balance call for that wallet.
C4_OnlyProcedureWrites ==
    [][\A u \in Users :
          wallets'[u] # wallets[u] =>
              \E c \in RpcIds : /\ rpc[c].pc = "update"
                                /\ rpc'[c].pc = "done"
                                /\ rpc[c].p_user_id = u]_vars

\* A run takes from the poll exactly the pending bets that are due, sends
\* only bets of the poll, and ends only when each of them was sent.
ForwardsExactlyDue ==
    \A r \in RunIds :
        /\ (runs[r].pc = "idle" /\ runs'[r].pc # "idle") =>
              runs'[r].pendingBets =
                 {b \in BetIds : bets[b].status = "pending"
                                 /\ bets[b].settlement_time <= now}
        /\ (runs[r].pc = "loop" /\ runs'[r].pc = "await") =>
              trig'[runs'[r].awaiting].betId
                 \in runs[r].pendingBets \ runs[r].settlementResults
        /\ (runs[r].pc # "done" /\ runs'[r].pc = "done") =>
              runs[r].settlementResults = runs[r].pendingBets

\* A row goes from 'pending' to 'settled' only at or after its settlement_time.
NoEarlySettlement ==
    \A b \in BetIds :
        (bets[b].status = "pending" /\ bets'[b].status = "settled") =>
            now >= bets[b].settlement_time

\* C9: each scheduler run forwards to the trigger exactly the bets that are
\* pending and whose settlement_time is at or before the poll, and no bet
\* becomes 'settled' earlier than its settlement_time.
C9_PollAndForward == [][ForwardsExactlyDue /\ NoEarlySettlement]_vars

C9_ForwardsExactlyDue == [][ForwardsExactlyDue]_vars

\* C11: with the scheduler triggered again and again and every call served,
\* every bet that placeBet stored as 'pending' eventually has status
\* 'settled', at a time at or after its settlement_time.
C11_EventuallySettled ==
    \A b \in BetIds :
        (bets[b].status = "pending") ~>
            (bets[b].status = "settled" /\ now >= bets[b].settlement_time)

\* Every bet was settled, at or after its time, and a scheduler run has
\* collected the answer of the trigger.
C11_Witness ==
    /\ \A b \in BetIds : bets[b].status = "settled" /\ now >= bets[b].settlement_time
    /\ \E r \in RunIds : runs[r].settlementResults # {}

\* C12: once a row has status 'settled', no step of a trigger invocation or
\* of a scheduler run changes its status, actual_value, actual_decimal,
\* is_win or win_amount.
C12_SettledIsFinal ==
    [][\A b \in BetIds :
          bets[b].status = "settled" =>
              /\ bets'[b].status = bets[b].status
              /\ bets'[b].actual_value = bets[b].actual_value
              /\ bets'[b].actual_decimal = bets[b].actual_decimal
              /\ bets'[b].is_win = bets[b].is_win
              /\ bets'[b].win_amount = bets[b].win_amount]_vars

\* C13: when the update_wallet_balance call of a winning settlement fails,
\* the trigger does not answer with success and does not leave the bet
\* 'settled' with is_win = true.
C13_WalletErrorReported ==
    [][\A t \in TrigIds :
          (/\ trig[t].pc = "await"
           /\ rpc[TrigCall(t)].pc = "failed"
           /\ trig'[t].pc = "done") =>
              /\ trig'[t].response # "success"
              /\ ~(/\ bets'[trig[t].betId].status = "settled"
                   /\ bets'[trig[t].betId].is_win)]_vars

\* C14: for every bet whose result was written, by the trigger or by the
\* client's handler, win_amount is 95% of the stake if is_win and 0 otherwise;
\* so win_amount > 0 exactly when is_win, and win_amount is at most the stake.
C14_PayoutRule ==
    \A b \in BetIds :
        (bets[b].status = "settled" \/ bets[b].actual_value # Null) =>
            /\ 100 * bets[b].win_amount =
                    IF bets[b].is_win THEN 95 * bets[b].amount ELSE 0
            /\ (bets[b].win_amount > 0) <=> bets[b].is_win
            /\ bets[b].win_amount <= bets[b].amount

\* A bet of 11 rupees settled as won by the trigger, one written as lost by
\* the client's handler.
C14_Witness ==
    /\ bets[1].status = "settled" /\ bets[1].is_win
    /\ bets[1].amount = 1100 /\ bets[1].win_amount = 1045
    /\ bets[2].status = "pending" /\ bets[2].actual_value # Null
    /\ ~bets[2].is_win /\ bets[2].win_amount = 0

-----------------------------------------------------------------------------
(* Claims about placeBet, checked under SpecPlace.                         *)

\* The conditions under which a bet may be placed: every field filled, a
\* stake from 10 to 500, a known balance that covers it, and a number in the
\* range of the bet type.
MayPlace(form, walletBalance) ==
    LET stake == parseInt(form.betAmount)
        number == parseInt(form.betNumber)
    IN  /\ form.selectedIndex # "" /\ form.betAmount # <<>>
        /\ form.betType # "" /\ form.betNumber # <<>>
        /\ form.settlementTime # ""
        /\ form.settlementTime = "custom" => form.customTime # NoTime
        /\ stake # NaN /\ stake >= 10 /\ stake <= 500
        /\ walletBalance >= 100 * stake
        /\ number # NaN /\ number >= 0
        /\ number <= (IF form.betType = "pair" THEN 99 ELSE 9)

\* A call of placeBet starts a wallet call or inserts a row only for a form
\* that may be placed.
PlacesOnlyValid ==
    /\ (place.pc = "idle" /\ rpc' # rpc) =>
            MayPlace(place'.form, place.walletBalance)
    /\ (place.pc = "idle" /\ place'.pc = "done") =>
            (rpc' = rpc /\ bets' = bets)
    /\ (place.pc = "deduct" /\ bets' # bets) =>
            MayPlace(place.form, place.walletBalance)

StoredBetsValid ==
    \A b \in BetIds :
        bets[b].status # "absent" =>
            /\ bets[b].amount >= 10 * 100 /\ bets[b].amount <= 500 * 100
            /\ bets[b].bet_number >= 0
            /\ bets[b].bet_number <= (IF bets[b].bet_type = "pair" THEN 99 ELSE 9)

\* C16: placeBet debits the wallet and inserts a row only when every field
\* is filled, the stake is from 10 to 500, the known balance covers it and
\* the number is in the range of its type; on a rejected input it makes no
\* wallet call and inserts no row; so every stored bet has a stake in
\* 10..500 and a number in range.
C16_PlaceBetValidation == [][PlacesOnlyValid]_vars /\ [](StoredBetsValid)

C16_StoredBetsValid == [](StoredBetsValid)

\* The call of placeBet recorded a bet_place transaction; it stored a row.
StakeDeducted == place.call # 0 /\ rpc[place.call].pc = "done"
BetStored == place.betId # 0

\* C17: after placeBet has finished, with success or with an error, a bet
\* row exists if and only if a bet_place transaction of the same amount was
\* recorded for it: no bet without its stake, no stake without its bet.
C17_StakeAndBetTogether ==
    place.pc = "done" =>
        /\ BetStored <=> StakeDeducted
        /\ BetStored => bets[place.betId].amount = rpc[place.call].p_amount

\* The close of the session of the index that is open at time of day t, in
\* the browser's clock: as far ahead as the index's own clock is from its
\* marketClose.
SessionClose(indexName, t) ==
    t + IndexConfig(indexName).marketClose - MarketClock(IndexConfig(indexName), t)

\* C18: for the market_close and for the custom choice, the settlement_time
\* that placeBet stores is later than the moment of placement and not later
\* than the closing time of the selected index on that day.
C18_SettlementTimeInWindow ==
    \A b \in BetIds :
        bets[b].status # "absent" =>
            /\ bets[b].settlement_time > now
            /\ bets[b].settlement_time <= SessionClose(bets[b].index_name, now)

-----------------------------------------------------------------------------
(* Claims about verify-payment, checked under SpecPay.                     *)

\* The request of invocation v comes from a signed-in user, carries the three
\* fields and the gateway's signature over its order and payment ids, and
\* the gateway reports the payment as captured.
MayCredit(v) ==
    LET request == pay[v].request
    IN  /\ request.user \in Users
        /\ request.razorpay_order_id # Missing
        /\ request.razorpay_payment_id # Missing
        /\ request.razorpay_signature =
               Hmac(KeySecret, <<request.razorpay_order_id,
                                 request.razorpay_payment_id>>)
        /\ Payment(request.razorpay_payment_id).status = "captured"

\* The wallet call of invocation v has recorded its credit.
Credited(v) == pay[v].call # 0 /\ rpc[pay[v].call].pc = "done"

\* C19: verify-payment calls the wallet only for an authenticated user, with
\* the three fields present, a matching HMAC signature and a payment the
\* gateway reports as captured; the amount credited is the payment's amount
\* in paise divided by 100; every other path leaves wallet and transactions
\* as they were and answers with an error.
C19_CreditsOnlyVerified ==
    \A v \in PayIds :
        /\ pay[v].call # 0 =>
              /\ MayCredit(v)
              /\ rpc[pay[v].call].p_type = "credit"
              /\ rpc[pay[v].call].p_user_id = pay[v].request.user
              /\ rpc[pay[v].call].p_amount =
                    Payment(pay[v].request.razorpay_payment_id).amount
        /\ pay[v].pc = "done" =>
              /\ pay[v].response = "success" <=> Credited(v)
              /\ pay[v].response # "none"
        /\ Len(transactions) = Cardinality({w \in PayIds : Credited(w)})
        /\ \A i \in 1..Len(transactions) :
              /\ transactions[i].type = "credit"
              /\ transactions[i].amount =
                    Payment(transactions[i].reference_id).amount
              /\ \E w \in PayIds :
                    /\ Credited(w)
                    /\ pay[w].request.razorpay_payment_id =
                          transactions[i].reference_id
                    /\ pay[w].request.user = transactions[i].user_id
        /\ \A u \in Users :
              wallets[u] # 0 =>
                  \E w \in PayIds : Credited(w) /\ pay[w].request.user = u

\* One request was credited and answered with success, another with a
\* signature of another key was refused.
C19_Witness ==
    \E v, w \in PayIds :
        /\ pay[v].pc = "done" /\ pay[v].response = "success"
        /\ wallets["u1"] = Payment(1).amount
        /\ pay[w].pc = "done" /\ pay[w].response = "Invalid payment signature"

RECURSIVE CreditRows(_, _)
CreditRows(rows, paymentId) ==
    IF rows = <<>> THEN 0
    ELSE (IF Head(rows).type = "credit" /\ Head(rows).reference_id = paymentId
          THEN 1 ELSE 0) + CreditRows(Tail(rows), paymentId)

\* C20: however often the same valid triple of order id, payment id and
\* signature is submitted, one after the other or at once, at most one
\* credit transaction carries the payment id as its reference.
C20_CreditedAtMostOnce ==
    \A p \in PaymentIds : CreditRows(transactions, p) <= 1

-----------------------------------------------------------------------------
(* Claim about the websocket relay, checked under SpecWs.                  *)

\* C10: broadcastBetSettlement sends one bet_settlement message to every
\* registered connection whose state is OPEN, sends nothing to the others,
\* and after it returns the registry contains only connections that were
\* OPEN and to which the send succeeded.
C10_Broadcast ==
    [][broadcasts' # broadcasts =>
        /\ \A c \in ConnIds :
              sendCalls'[c] = sendCalls[c] +
                 (IF c \in connections /\ readyState[c] = "OPEN" THEN 1 ELSE 0)
        /\ \A c \in connections' :
              /\ c \in connections
              /\ readyState[c] = "OPEN"
              /\ c \notin sendFailed']_vars

\* After a broadcast: a socket that got the message and stayed, and one that
\* is gone because its send threw or because it was closing.
C10_Witness ==
    /\ broadcasts >= 1
    /\ \E c \in connections : sendCalls[c] >= 1 /\ readyState[c] = "OPEN"
    /\ \E d \in ConnIds \ connections :
          \/ d \in sendFailed /\ sendCalls[d] >= 1
          \/ readyState[d] = "CLOSING" /\ sendCalls[d] = 0

====
